---- MODULE Spec2Model ----
(***************************************************************************)
(* Model of kanji_book_cloud_vision.py: the pipeline run by main(), with   *)
(* the word extractor, the Latin/numeric filter, the sequential merge loop *)
(* and the kanji association of merge_and_filter_words.                    *)
(*                                                                         *)
(* Python objects live in a heap (a sequence of Word records, a reference  *)
(* is an index into it), so that Word.copy and Word.merge keep their       *)
(* aliasing behaviour.  A string is the sequence of its Unicode code       *)
(* points.  Confidence scores are in hundredths.                           *)
(***************************************************************************)
EXTENDS Integers, Sequences, FiniteSets, TLC

\* longest OCR response (in candidate words) drawn for a run
MaxWords == 3

Abs(n) == IF n < 0 THEN 0 - n ELSE n

Range(s) == {s[i] : i \in 1..Len(s)}

(***************************************************************************)
(* The inputs of a run: the configuration file and the OCR response.       *)
(***************************************************************************)

\* a word of the OCR response: symbols, a 4-point quadrilateral, a confidence
OcrWord(texts, xl, xr, yt, yb, conf) ==
    [symbols      |-> [i \in 1..Len(texts) |-> [text |-> texts[i]]],
     bounding_box |-> [vertices |-> [i \in 0..3 |->
                          CASE i = 0 -> [x |-> xl, y |-> yt]
                            [] i = 1 -> [x |-> xr, y |-> yt]
                            [] i = 2 -> [x |-> xr, y |-> yb]
                            [] i = 3 -> [x |-> xl, y |-> yb]]],
     confidence   |-> conf]

\* code points: 28450 and 23383 are kanji, 12363 12435 12376 are hiragana,
\* 51 is "3", 68 is "D", 65 is "A"
Candidates ==
    { OcrWord(<< <<28450>> >>,        0, 0, 2, 6,  90),   \* tall glyph
      OcrWord(<< <<23383>> >>,        1, 1, 7, 10, 90),   \* tall glyph, height = min_kanji_height
      OcrWord(<< <<12363>> >>,        0, 0, 6, 7,  80),   \* confidence = min_confidence
      OcrWord(<< <<12435>> >>,        1, 1, 6, 7,  90),
      OcrWord(<< <<12376>> >>,        3, 4, 0, 1,  90),   \* far to the right, above both tall glyphs
      OcrWord(<< <<51>>, <<68>> >>,   8, 9, 6, 7,  90),   \* "3D"
      OcrWord(<< <<12363>>, <<65>> >>, 1, 1, 7, 9, 90),   \* Latin letter not in leading position
      OcrWord(<< <<12435>> >>,        1, 1, 6, 7,  79),   \* confidence too low
      OcrWord(<< <<12363>> >>,        0, 0, 3, 3,  90) }  \* height too low

Configs ==
    { [min_confidence |-> 80, min_word_height |-> 1, min_kanji_height |-> 3,
       min_interword_distance |-> d,
       max_distance_from_kanji_top |-> 1, max_distance_from_kanji_bottom |-> 1]
      : d \in {0, 1} }

\* the raw words and thresholds of the worked example of the specification;
\* the horizontal extent of the two kanji is left open there
ScenarioConfig ==
    [min_confidence |-> 80, min_word_height |-> 1, min_kanji_height |-> 9,
     min_interword_distance |-> 2,
     max_distance_from_kanji_top |-> 3, max_distance_from_kanji_bottom |-> 3]

ScenarioKanjiX == { <<0, 10>>, <<4, 14>>, <<20, 30>> }

ScenarioWords(kx1, kx2) ==
    << OcrWord(<< <<28450>> >>,           kx1[1], kx1[2], 0,  10, 90),
       OcrWord(<< <<23383>> >>,           kx2[1], kx2[2], 0,  10, 90),
       OcrWord(<< <<12363>>, <<12435>> >>, 0,      5,      12, 20, 90),
       OcrWord(<< <<12376>> >>,           6,      9,      12, 20, 90) >>

SeqsUpTo(S, n) == UNION { [1..k -> S] : k \in 0..n }

\* two ways the service may group the same words into pages, blocks and
\* paragraphs
Shapes == {"single", "split"}

Paragraph(ws) == [words |-> ws]
Block(ps)     == [paragraphs |-> ps]
Page(bs)      == [blocks |-> bs]

Nest(shape, ws) ==
    IF shape = "single"
    THEN [full_text_annotation |->
            [pages |-> IF ws = <<>> THEN <<>>
                       ELSE << Page(<< Block(<< Paragraph(ws) >>) >>) >>]]
    ELSE [full_text_annotation |->
            [pages |-> << Page(<< Block(<<>>),
                                  Block(<< Paragraph(IF ws = <<>> THEN <<>> ELSE <<ws[1]>>),
                                           Paragraph(<<>>) >>) >>),
                          Page(<< Block([i \in 1..(Len(ws) - 1) |->
                                           Paragraph(<<ws[i + 1]>>)]) >>) >>]]

EmptyResponse == [full_text_annotation |-> [pages |-> <<>>]]
NoConfig ==
    [min_confidence |-> 0, min_word_height |-> 0, min_kanji_height |-> 0,
     min_interword_distance |-> 0,
     max_distance_from_kanji_top |-> 0, max_distance_from_kanji_bottom |-> 0]

(***************************************************************************)
(* class Word                                                              *)
(***************************************************************************)

Word(string, yb, yt, xl, xr, iskanji) ==
    [string |-> string, yb |-> yb, yt |-> yt, xl |-> xl, xr |-> xr,
     iskanji |-> iskanji]

\* a copy that hands back the object itself
copy_alias(h, self) == [heap |-> h, ref |-> self]

\* Word.copy: a new object with a copy of the fields
copy(h, self) == [heap |-> Append(h, h[self]), ref |-> Len(h) + 1]

\* Word.merge: mutates self in place
merge(h, self, next) ==
    [h EXCEPT ![self] = [@ EXCEPT !.string = @ \o h[next].string,
                                  !.xr     = h[next].xr]]

\* Word.to_yaml_dict
to_yaml_dict(w) ==
    IF w.iskanji THEN [string |-> w.string, type |-> "kanji"]
                 ELSE [string |-> w.string, type |-> "vocab"]

(***************************************************************************)
(* words_raw_from_response                                                 *)
(***************************************************************************)

RECURSIVE Join(_)
\* ''.join([symbol.text for symbol in word.symbols])
Join(symbols) ==
    IF symbols = <<>> THEN <<>>
    ELSE Head(symbols).text \o Join(Tail(symbols))

bheight(word) ==
    Abs(word.bounding_box.vertices[2].y - word.bounding_box.vertices[0].y)

\* either threshold is enough
Accepted_either(word, cfg) ==
    \/ word.confidence >= cfg.min_confidence
    \/ bheight(word) >= cfg.min_word_height

Accepted(word, cfg) ==
    /\ word.confidence >= cfg.min_confidence
    /\ bheight(word) >= cfg.min_word_height

RawWord(word, cfg) ==
    Word(Join(word.symbols),
         word.bounding_box.vertices[2].y,
         word.bounding_box.vertices[0].y,
         word.bounding_box.vertices[0].x,
         word.bounding_box.vertices[1].x,
         bheight(word) >= cfg.min_kanji_height)

RECURSIVE FromWords(_, _)
FromWords(ws, cfg) ==
    IF ws = <<>> THEN <<>>
    ELSE (IF Accepted(Head(ws), cfg) THEN <<RawWord(Head(ws), cfg)>> ELSE <<>>)
         \o FromWords(Tail(ws), cfg)

RECURSIVE FromParagraphs(_, _)
FromParagraphs(ps, cfg) ==
    IF ps = <<>> THEN <<>>
    ELSE FromWords(Head(ps).words, cfg) \o FromParagraphs(Tail(ps), cfg)

RECURSIVE FromBlocks(_, _)
FromBlocks(bs, cfg) ==
    IF bs = <<>> THEN <<>>
    ELSE FromParagraphs(Head(bs).paragraphs, cfg) \o FromBlocks(Tail(bs), cfg)

RECURSIVE FromPages(_, _)
FromPages(pgs, cfg) ==
    IF pgs = <<>> THEN <<>>
    ELSE FromBlocks(Head(pgs).blocks, cfg) \o FromPages(Tail(pgs), cfg)

\* the list of Word values the function returns
words_raw_from_response(resp, cfg) ==
    FromPages(resp.full_text_annotation.pages, cfg)

(***************************************************************************)
(* merge_and_filter_words: the pure parts                                  *)
(***************************************************************************)

\* the character class [A-Za-z0-9/-]
InClass(c) == c \in (65..90) \cup (97..122) \cup (48..57) \cup {47, 45}

\* regex.search(string): the pattern is tried at every position
RegexMatch_search(string) == \E i \in 1..Len(string) : InClass(string[i])

\* regex.match(string): the pattern is tried at the start of the string only
RegexMatch(string) == Len(string) >= 1 /\ InClass(string[1])

RECURSIVE FilterRefs(_, _)
\* [w for w in words_raw if not regex.match(w.string)]
FilterRefs(h, refs) ==
    IF refs = <<>> THEN <<>>
    ELSE (IF RegexMatch(h[Head(refs)].string) THEN <<>> ELSE <<Head(refs)>>)
         \o FilterRefs(h, Tail(refs))

\* a seed that needs a second word
SeedFails_single(refs) == Len(refs) <= 1

\* words_raw[0] raises IndexError on an empty list
SeedFails(refs) == Len(refs) = 0

\* abs(words_raw[idx + 1].xl - words_raw[idx].xr) <= config['min_interword_distance']
Close(cur, nxt, cfg) == Abs(nxt.xl - cur.xr) <= cfg.min_interword_distance

\* a window open at its top edge
InBand_strict(k, kanjit, kanjib) ==
    /\ k.yt > kanjit
    /\ k.yb <= kanjib
    /\ k.iskanji = FALSE

\* a window without its bottom edge
InBand_nobottom(k, kanjit, kanjib) ==
    /\ k.yt >= kanjit
    /\ k.iskanji = FALSE

\* (k.yt >= kanjit) and (k.yb <= kanjib) and k.iskanji == False
InBand(k, kanjit, kanjib) ==
    /\ k.yt >= kanjit
    /\ k.yb <= kanjib
    /\ k.iskanji = FALSE

RECURSIVE InnerLoop(_, _, _, _, _)
\* for k in words: ... queries.append(k)
InnerLoop(h, ws, kanjit, kanjib, j) ==
    IF j > Len(ws) THEN <<>>
    ELSE (IF InBand(h[ws[j]], kanjit, kanjib) THEN <<ws[j]>> ELSE <<>>)
         \o InnerLoop(h, ws, kanjit, kanjib, j + 1)

RECURSIVE OuterLoop(_, _, _, _)
\* for word in words: if word.iskanji == True: ...
OuterLoop(h, ws, cfg, i) ==
    IF i > Len(ws) THEN <<>>
    ELSE (IF h[ws[i]].iskanji = TRUE
          THEN <<ws[i]>> \o
               InnerLoop(h, ws,
                         h[ws[i]].yt - cfg.max_distance_from_kanji_top,
                         h[ws[i]].yb + cfg.max_distance_from_kanji_bottom, 1)
          ELSE <<>>)
         \o OuterLoop(h, ws, cfg, i + 1)

SortByKanji(h, ws, cfg) == OuterLoop(h, ws, cfg, 1)

(***************************************************************************)
(* The state of a run of main()                                            *)
(***************************************************************************)

VARIABLES
    pc,             \* the statement main() is at
    conf_file,      \* content of the configuration file
    image,          \* what the OCR service answers for the image
    config,         \* main: config
    response,       \* main: response
    heap,           \* the Word objects allocated so far
    words_raw,      \* main: words_raw (references)
    words_filtered, \* merge_and_filter_words: words_raw after the filter
    buffer,         \* merge_and_filter_words: buffer (a reference)
    buffer_set,     \* merge_and_filter_words: buffer_set
    idx,            \* merge_and_filter_words: idx
    words,          \* merge_and_filter_words: words (references)
    queries,        \* merge_and_filter_words: queries (references)
    out_file,       \* the output file
    displayed,      \* img.show() has been called
    failed_at       \* the statement that raised, if any

vars == << pc, conf_file, image, config, response, heap, words_raw,
           words_filtered, buffer, buffer_set, idx, words, queries,
           out_file, displayed, failed_at >>

mergeVars == << words_filtered, buffer, buffer_set, idx, words, queries >>
ioVars    == << out_file, displayed >>
envVars   == << conf_file, image >>

Init ==
    /\ \/ /\ conf_file \in Configs
          /\ \E ws \in SeqsUpTo(Candidates, MaxWords), sh \in Shapes :
                image = Nest(sh, ws)
       \/ /\ conf_file = ScenarioConfig
          /\ \E kx1 \in ScenarioKanjiX, kx2 \in ScenarioKanjiX, sh \in Shapes :
                image = Nest(sh, ScenarioWords(kx1, kx2))
    /\ pc = "read_config"
    /\ config = NoConfig
    /\ response = EmptyResponse
    /\ heap = <<>>
    /\ words_raw = <<>>
    /\ words_filtered = <<>>
    /\ buffer = 0
    /\ buffer_set = FALSE
    /\ idx = 0
    /\ words = <<>>
    /\ queries = <<>>
    /\ out_file = [status |-> "untouched", content |-> <<>>]
    /\ displayed = FALSE
    /\ failed_at = "none"

(***************************************************************************)
(* main(): one action per statement; merge_and_filter_words is unfolded    *)
(* into its filter, one action per kind of loop iteration, its final flush *)
(* and its association pass.                                               *)
(***************************************************************************)

\* main() with the display ahead of the output file
After_display_first(p) ==
    CASE p = "read_config"             -> "cloud_vision_read"
      [] p = "cloud_vision_read"       -> "words_raw_from_response"
      [] p = "words_raw_from_response" -> "merge_and_filter_words"
      [] p = "merge_and_filter_words"  -> "display"
      [] p = "display"                 -> "open_out_file"
      [] p = "open_out_file"           -> "write_dump"
      [] p = "write_dump"              -> "done"

\* the statement main() runs after statement p has returned
After(p) ==
    CASE p = "read_config"             -> "cloud_vision_read"
      [] p = "cloud_vision_read"       -> "words_raw_from_response"
      [] p = "words_raw_from_response" -> "merge_and_filter_words"
      [] p = "merge_and_filter_words"  -> "open_out_file"
      [] p = "open_out_file"           -> "write_dump"
      [] p = "write_dump"              -> "display"
      [] p = "display"                 -> "done"

\* the statements that touch the file system, the network or the screen
CanRaise == {"read_config", "cloud_vision_read", "open_out_file",
             "write_dump", "display"}

\* config = read_config(conf_file)
ReadConfig ==
    /\ pc = "read_config"
    /\ config' = conf_file
    /\ pc' = After("read_config")
    /\ UNCHANGED << envVars, response, heap, words_raw, mergeVars, ioVars,
                    failed_at >>

\* response = cloud_vision_read(img_file)
CloudVisionRead ==
    /\ pc = "cloud_vision_read"
    /\ response' = image
    /\ pc' = After("cloud_vision_read")
    /\ UNCHANGED << envVars, config, heap, words_raw, mergeVars, ioVars,
                    failed_at >>

\* words_raw = words_raw_from_response(response, config)
WordsRawFromResponse ==
    /\ pc = "words_raw_from_response"
    /\ LET ws == words_raw_from_response(response, config) IN
         /\ heap' = heap \o ws
         /\ words_raw' = [i \in 1..Len(ws) |-> Len(heap) + i]
    /\ pc' = After("words_raw_from_response")
    /\ UNCHANGED << envVars, config, response, mergeVars, ioVars, failed_at >>

\* the filter and the seeding of the buffer
MergeFilter ==
    /\ pc = "merge_and_filter_words"
    /\ LET f == FilterRefs(heap, words_raw) IN
         /\ ~ SeedFails(f)
         /\ words_filtered' = f
         /\ LET c == copy(heap, f[1]) IN
              /\ heap' = c.heap
              /\ buffer' = c.ref
    /\ words' = <<>>
    /\ buffer_set' = FALSE
    /\ idx' = 0
    /\ pc' = "merge_loop"
    /\ UNCHANGED << envVars, config, response, words_raw, queries, ioVars,
                    failed_at >>

\* words_raw[0] on an empty filtered list
MergeIndexError ==
    /\ pc = "merge_and_filter_words"
    /\ LET f == FilterRefs(heap, words_raw) IN
         /\ SeedFails(f)
         /\ words_filtered' = f
    /\ pc' = "aborted"
    /\ failed_at' = "merge_and_filter_words"
    /\ UNCHANGED << envVars, config, response, heap, words_raw, buffer,
                    buffer_set, idx, words, queries, ioVars >>

InLoop == pc = "merge_loop" /\ idx < Len(words_filtered) - 1

\* words_raw[idx] and words_raw[idx + 1] of the code (idx counts from 0)
Cur == words_filtered[idx + 1]
Nxt == words_filtered[idx + 2]

\* an iteration on a kanji: append a copy and continue
LoopKanji ==
    /\ InLoop
    /\ heap[Cur].iskanji = TRUE
    /\ LET c == copy(heap, Cur) IN
         /\ heap' = c.heap
         /\ words' = Append(words, c.ref)
    /\ buffer_set' = FALSE
    /\ idx' = idx + 1
    /\ UNCHANGED << pc, envVars, config, response, words_raw, words_filtered,
                    buffer, queries, ioVars, failed_at >>

\* if buffer_set == False: buffer = words_raw[idx].copy()
Rebuffer == IF buffer_set = FALSE THEN copy(heap, Cur)
            ELSE [heap |-> heap, ref |-> buffer]

\* an iteration whose next word is close: merge it into the buffer
LoopMerge ==
    /\ InLoop
    /\ heap[Cur].iskanji # TRUE
    /\ LET c == Rebuffer IN
         /\ Close(c.heap[Cur], c.heap[Nxt], config)
         /\ heap' = merge(c.heap, c.ref, Nxt)
         /\ buffer' = c.ref
    /\ buffer_set' = TRUE
    /\ idx' = idx + 1
    /\ UNCHANGED << pc, envVars, config, response, words_raw, words_filtered,
                    words, queries, ioVars, failed_at >>

\* an iteration whose next word is far: append the buffer
LoopFlush ==
    /\ InLoop
    /\ heap[Cur].iskanji # TRUE
    /\ LET c == Rebuffer IN
         /\ ~ Close(c.heap[Cur], c.heap[Nxt], config)
         /\ heap' = c.heap
         /\ buffer' = c.ref
         /\ words' = Append(words, c.ref)
    /\ buffer_set' = FALSE
    /\ idx' = idx + 1
    /\ UNCHANGED << pc, envVars, config, response, words_raw, words_filtered,
                    queries, ioVars, failed_at >>

\* after the loop: append the buffer or the last raw word
MergeFinal ==
    /\ pc = "merge_loop"
    /\ ~ InLoop
    /\ words' = Append(words, IF buffer_set = TRUE THEN buffer
                              ELSE words_filtered[Len(words_filtered)])
    /\ pc' = "sort_by_kanji"
    /\ UNCHANGED << envVars, config, response, heap, words_raw,
                    words_filtered, buffer, buffer_set, idx, queries, ioVars,
                    failed_at >>

\* the association pass and the return to main()
SortWordsByKanji ==
    /\ pc = "sort_by_kanji"
    /\ queries' = SortByKanji(heap, words, config)
    /\ pc' = After("merge_and_filter_words")
    /\ UNCHANGED << envVars, config, response, heap, words_raw,
                    words_filtered, buffer, buffer_set, idx, words, ioVars,
                    failed_at >>

\* open(out_file, 'w', encoding='utf-8') creates or truncates the file
OpenOutFile ==
    /\ pc = "open_out_file"
    /\ out_file' = [status |-> "truncated", content |-> <<>>]
    /\ pc' = After("open_out_file")
    /\ UNCHANGED << envVars, config, response, heap, words_raw, mergeVars,
                    displayed, failed_at >>

\* output_file.write(yaml.dump([q.to_yaml_dict() for q in queries]))
WriteDump ==
    /\ pc = "write_dump"
    /\ out_file' = [status  |-> "written",
                    content |-> [i \in 1..Len(queries) |->
                                    to_yaml_dict(heap[queries[i]])]]
    /\ pc' = After("write_dump")
    /\ UNCHANGED << envVars, config, response, heap, words_raw, mergeVars,
                    displayed, failed_at >>

\* display(img_file, queries, config)
Display ==
    /\ pc = "display"
    /\ displayed' = TRUE
    /\ pc' = After("display")
    /\ UNCHANGED << envVars, config, response, heap, words_raw, mergeVars,
                    out_file, failed_at >>

\* an uncaught exception of a statement that does I/O ends the run
Raise ==
    /\ pc \in CanRaise
    /\ pc' = "aborted"
    /\ failed_at' = pc
    /\ UNCHANGED << envVars, config, response, heap, words_raw, mergeVars,
                    ioVars >>

Next ==
    \/ ReadConfig
    \/ CloudVisionRead
    \/ WordsRawFromResponse
    \/ MergeFilter
    \/ MergeIndexError
    \/ LoopKanji
    \/ LoopMerge
    \/ LoopFlush
    \/ MergeFinal
    \/ SortWordsByKanji
    \/ OpenOutFile
    \/ WriteDump
    \/ Display
    \/ Raise

Spec == Init /\ [][Next]_vars

(***************************************************************************)
(* Vocabulary of the properties                                            *)
(***************************************************************************)

\* the Word values a list of references points at
Val(refs) == [i \in 1..Len(refs) |-> heap[refs[i]]]

IsKanji(w) == w.iskanji = TRUE
IsVocab(w) == w.iskanji = FALSE

\* the k-th smallest element of a finite set of integers
Nth(S, k) == CHOOSE i \in S : Cardinality({j \in S : j < i}) = k - 1

RECURSIVE ConcatStrings(_, _, _)
\* string of ws[i] .. ws[j] concatenated
ConcatStrings(ws, i, j) ==
    IF i > j THEN <<>> ELSE ws[i].string \o ConcatStrings(ws, i + 1, j)

Gap(a, b) == Abs(b.xl - a.xr)

WellFormed(w) == w.xl <= w.xr /\ w.yt <= w.yb

\* merge_and_filter_words has left its merge loop; words is final
Merged == pc \in {"sort_by_kanji", "open_out_file"}

\* merge_and_filter_words has returned its query list to main()
Returned == pc = "open_out_file"

(***************************************************************************)
(* C1                                                                      *)
(***************************************************************************)

\* C1: every kanji of the filtered sequence is in the merged list as its own
\* entry, unchanged, and no kanji is ever merged into the buffer.
C1_KanjiNeverMerged ==
    /\ (pc = "merge_loop" /\ buffer_set = TRUE)
          => ~ IsKanji(heap[words_filtered[idx + 1]])
    /\ Merged => SelectSeq(Val(words), IsKanji)
                    = SelectSeq(Val(words_filtered), IsKanji)

(***************************************************************************)
(* C2                                                                      *)
(***************************************************************************)

\* length of the maximal run of close non-kanji words that starts at ws[1]
RunLen(ws, d) ==
    CHOOSE n \in 1..Len(ws) :
        /\ \A k \in 1..n : IsVocab(ws[k])
        /\ \A k \in 1..(n - 1) : Gap(ws[k], ws[k + 1]) <= d
        /\ n < Len(ws) => \/ IsKanji(ws[n + 1])
                          \/ Gap(ws[n], ws[n + 1]) > d

RECURSIVE RunsMerged(_, _)
\* one entry per kanji and one entry per maximal run
RunsMerged(ws, d) ==
    IF ws = <<>> THEN <<>>
    ELSE IF IsKanji(ws[1]) THEN <<ws[1]>> \o RunsMerged(Tail(ws), d)
    ELSE LET n == RunLen(ws, d) IN
         << [string  |-> ConcatStrings(ws, 1, n),
             xl      |-> ws[1].xl,
             yt      |-> ws[1].yt,
             yb      |-> ws[1].yb,
             xr      |-> ws[n].xr,
             iskanji |-> FALSE] >>
         \o RunsMerged(SubSeq(ws, n + 1, Len(ws)), d)

\* C2: the merged list holds exactly one entry per maximal run of close
\* non-kanji words, in order, with the run's concatenated string, the first
\* fragment's left edge and vertical extent and the last fragment's right
\* edge; no fragment is lost or emitted twice.
C2_RunsMergedOnce ==
    Merged => Val(words)
                = RunsMerged(Val(words_filtered), config.min_interword_distance)

(***************************************************************************)
(* C3                                                                      *)
(***************************************************************************)

\* the vocabulary entries of the merged list inside the window of kanji K
Associated(K) ==
    SelectSeq(words,
              LAMBDA r : /\ IsVocab(heap[r])
                         /\ heap[r].yt >= heap[K].yt - config.max_distance_from_kanji_top
                         /\ heap[r].yb <= heap[K].yb + config.max_distance_from_kanji_bottom)

RECURSIVE Groups(_)
\* kanji then its vocabulary, for the kanji entries from position i on
Groups(i) ==
    IF i > Len(words) THEN <<>>
    ELSE (IF IsKanji(heap[words[i]]) THEN <<words[i]>> \o Associated(words[i])
          ELSE <<>>)
         \o Groups(i + 1)

\* C3: the query list is, for each kanji of the merged list in order, the kanji
\* followed by every non-kanji merged entry inside its window, in order; a
\* word is emitted once per kanji it qualifies for; no kanji, no output.
C3_QueryList ==
    Returned =>
        /\ queries = Groups(1)
        /\ (\A i \in 1..Len(words) : IsVocab(heap[words[i]])) => queries = <<>>

\* a vocabulary word emitted twice, once for each of two kanji
C3_Witness ==
    /\ Returned
    /\ \E i, j \in 1..Len(queries) :
          i < j /\ queries[i] = queries[j] /\ IsVocab(heap[queries[i]])

(***************************************************************************)
(* C4                                                                      *)
(***************************************************************************)

RECURSIVE Flatten(_)
\* the concatenation of a sequence of sequences
Flatten(ss) == IF ss = <<>> THEN <<>> ELSE Head(ss) \o Flatten(Tail(ss))

Map(s, F(_)) == [i \in 1..Len(s) |-> F(s[i])]

\* the candidate words of a response in page, block, paragraph, word order
AllWords(resp) ==
    LET blocks     == Flatten(Map(resp.full_text_annotation.pages,
                                  LAMBDA p : p.blocks))
        paragraphs == Flatten(Map(blocks, LAMBDA b : b.paragraphs))
    IN  Flatten(Map(paragraphs, LAMBDA p : p.words))

Height(w) ==
    LET a == w.bounding_box.vertices[2].y
        b == w.bounding_box.vertices[0].y
    IN  IF a >= b THEN a - b ELSE b - a

\* C4: the extractor returns, in traversal order, exactly the candidates with
\* confidence >= min_confidence and height >= min_word_height, each kanji iff
\* its height >= min_kanji_height; an empty response gives an empty list.
C4_Extractor ==
    pc = "merge_and_filter_words" =>
        LET all  == AllWords(response)
            kept == {i \in 1..Len(all) :
                        /\ ~ (all[i].confidence < config.min_confidence)
                        /\ ~ (Height(all[i]) < config.min_word_height)}
        IN  /\ Len(words_raw) = Cardinality(kept)
            /\ \A k \in 1..Len(words_raw) :
                  LET c == all[Nth(kept, k)]
                      w == heap[words_raw[k]]
                  IN  /\ w.string = Flatten(Map(c.symbols, LAMBDA sy : sy.text))
                      /\ w.yt = c.bounding_box.vertices[0].y
                      /\ w.yb = c.bounding_box.vertices[2].y
                      /\ w.xl = c.bounding_box.vertices[0].x
                      /\ w.xr = c.bounding_box.vertices[1].x
                      /\ w.iskanji = (Height(c) >= config.min_kanji_height)
            /\ all = <<>> => words_raw = <<>>

\* a response with a word dropped for its confidence, one dropped for its
\* height, a kanji and a non-kanji
C4_Witness ==
    /\ pc = "merge_and_filter_words"
    /\ \E i \in 1..Len(AllWords(response)) :
          AllWords(response)[i].confidence < config.min_confidence
    /\ \E i \in 1..Len(AllWords(response)) :
          /\ AllWords(response)[i].confidence >= config.min_confidence
          /\ Height(AllWords(response)[i]) < config.min_word_height
    /\ \E k \in 1..Len(words_raw) : IsKanji(heap[words_raw[k]])

(***************************************************************************)
(* C5                                                                      *)
(***************************************************************************)

Ended == pc \in {"done", "aborted"}

\* C5: a run ends with the output file written and the display produced, or
\* with neither.
C5_NoPartialSuccess ==
    Ended => \/ out_file.status = "written" /\ displayed
             \/ out_file.status = "untouched" /\ ~ displayed

\* C5, amended: the display is produced only after the output file is
\* written; a completed run has both; a run that aborts before the output
\* file is opened has neither; a run that aborts while writing leaves the
\* file truncated and one that aborts in display leaves it written, both
\* without the display.
C5_FileBeforeDisplay ==
    /\ displayed => out_file.status = "written"
    /\ pc = "done" => out_file.status = "written" /\ displayed
    /\ (pc = "aborted" /\ failed_at \in {"read_config", "cloud_vision_read",
                                         "merge_and_filter_words",
                                         "open_out_file"})
          => out_file.status = "untouched" /\ ~ displayed
    /\ (pc = "aborted" /\ failed_at = "write_dump")
          => out_file.status = "truncated" /\ ~ displayed
    /\ (pc = "aborted" /\ failed_at = "display")
          => out_file.status = "written" /\ ~ displayed

\* the run that display() aborts after the file was written
C5_Witness ==
    /\ pc = "aborted"
    /\ failed_at = "display"
    /\ out_file.status = "written"
    /\ out_file.content # <<>>

(***************************************************************************)
(* C6                                                                      *)
(***************************************************************************)

LeadsLatin(string) ==
    string # <<>> /\ string[1] \in (65..90) \cup (97..122) \cup (48..57) \cup {45, 47}

\* positions of the raw words the filter has to keep
Survivors == {i \in 1..Len(words_raw) : ~ LeadsLatin(heap[words_raw[i]].string)}

\* w is the fusion of the filtered words i..j, each close to the next
FusionOf(w, i, j) ==
    LET wf == Val(words_filtered) IN
    /\ w.string = ConcatStrings(wf, i, j)
    /\ w.xl = wf[i].xl
    /\ w.xr = wf[j].xr
    /\ \A k \in i..(j - 1) : Gap(wf[k], wf[k + 1]) <= config.min_interword_distance

\* C6: the filter drops exactly the raw words that begin with a character of
\* [A-Za-z0-9/-], before merging; every merged or output entry is made of
\* words that are consecutive in the filtered sequence, with the gap test
\* taken between those.
C6_LatinFilter ==
    /\ pc \in {"merge_loop", "sort_by_kanji", "open_out_file"} =>
          /\ Len(words_filtered) = Cardinality(Survivors)
          /\ \A k \in 1..Len(words_filtered) :
                words_filtered[k] = words_raw[Nth(Survivors, k)]
    /\ Merged =>
          /\ \A r \in Range(words) :
                \E i \in 1..Len(words_filtered) :
                   \E j \in i..Len(words_filtered) : FusionOf(heap[r], i, j)
          /\ Range(queries) \subseteq Range(words)

\* a dropped word stood between two words that were merged, and was far
\* from both
C6_Witness ==
    /\ pc = "sort_by_kanji"
    /\ Len(words_raw) = 3
    /\ Survivors = {1, 3}
    /\ Gap(heap[words_raw[1]], heap[words_raw[2]]) > config.min_interword_distance
    /\ Len(words) = 1
    /\ heap[words[1]].string
          = heap[words_raw[1]].string \o heap[words_raw[3]].string

(***************************************************************************)
(* C7                                                                      *)
(***************************************************************************)

Strings(refs) == [i \in 1..Len(refs) |-> heap[refs[i]].string]

\* merge_and_filter_words has returned on the worked example
ScenarioRun ==
    /\ Returned
    /\ config = ScenarioConfig
    /\ Strings(words_raw) = << <<28450>>, <<23383>>, <<12363, 12435>>, <<12376>> >>

\* C7: on the worked example the output is kanji 1, the merged vocabulary
\* word, kanji 2, the merged vocabulary word.
C7_ScenarioAsStated ==
    ScenarioRun =>
        Strings(queries) = << <<28450>>, <<12363, 12435, 12376>>,
                              <<23383>>, <<12363, 12435, 12376>> >>

\* C7, amended: the two fragments are merged into one vocabulary word with
\* box x [0,9], y [12,20], which lies below the window [-3,13] of both kanji,
\* so the output is the two kanji alone.
C7_ScenarioOutput ==
    ScenarioRun =>
        /\ Strings(words) = << <<28450>>, <<23383>>, <<12363, 12435, 12376>> >>
        /\ heap[words[3]] = Word(<<12363, 12435, 12376>>, 20, 12, 0, 9, FALSE)
        /\ Strings(queries) = << <<28450>>, <<23383>> >>
        /\ \A r \in Range(queries) : IsKanji(heap[r])

C7_Witness ==
    /\ ScenarioRun
    /\ Len(words_raw) = 4
    /\ Len(words) = 3
    /\ heap[words_raw[3]].xr = 5 /\ heap[words_raw[4]].xl = 6

(***************************************************************************)
(* C8                                                                      *)
(***************************************************************************)

\* C8: merge_and_filter_words raises exactly when no word survives the
\* filter; with a survivor every step of it can run, the loop index stays
\* below the length, and it returns.
C8_FailsIffEmpty ==
    /\ pc = "merge_and_filter_words" =>
          /\ Survivors = {} => ENABLED MergeIndexError /\ ~ ENABLED MergeFilter
          /\ Survivors # {} => ENABLED MergeFilter /\ ~ ENABLED MergeIndexError
    /\ (pc = "aborted" /\ failed_at = "merge_and_filter_words")
          => Survivors = {}
    /\ pc = "merge_loop" =>
          /\ Survivors # {}
          /\ idx <= Len(words_filtered) - 1
          /\ ENABLED (LoopKanji \/ LoopMerge \/ LoopFlush \/ MergeFinal)
    /\ pc = "sort_by_kanji" => Survivors # {} /\ ENABLED SortWordsByKanji
    /\ Returned => Survivors # {}

\* a single surviving word, and the function has returned
C8_Witness ==
    /\ Returned
    /\ Cardinality(Survivors) = 1
    /\ Len(words_raw) > 1

(***************************************************************************)
(* C9                                                                      *)
(***************************************************************************)

\* C9: with well-formed raw boxes, every merged and every output box is
\* well-formed.
C9_WellFormedPreserved ==
    (Merged /\ \A r \in Range(words_raw) : WellFormed(heap[r]))
        => \A r \in Range(words) \cup Range(queries) : WellFormed(heap[r])

(***************************************************************************)
(* C10                                                                     *)
(***************************************************************************)

\* C10: no step changes a Word of the input list, of the merged list or of
\* the query list, and the input list itself stays as extracted.
C10_NoAliasing ==
    [][ /\ \A r \in Range(words_raw) \cup Range(words) \cup Range(queries) :
              heap'[r] = heap[r]
        /\ pc \notin {"read_config", "cloud_vision_read",
                      "words_raw_from_response"} => words_raw' = words_raw
      ]_vars

\* the merged list holds a fused copy and, by reference, the last raw word
C10_Witness ==
    /\ pc = "sort_by_kanji"
    /\ \E r \in Range(words) :
          /\ r \notin Range(words_raw)
          /\ \A q \in Range(words_raw) : heap[r] # heap[q]
    /\ \E r \in Range(words) : r \in Range(words_raw)

====
